---------------------------- MODULE Spec2Model ----------------------------
(***************************************************************************)
(* The replay-protection log of lightning-onion: persistlog.DecayedLog     *)
(* (Start, Stop, Get, Put, Delete and the garbageCollector goroutine), the *)
(* mock chain notifier of its tests, and the replay check that             *)
(* ProcessOnionPacket runs against the log; the onion packet codec; and    *)
(* the earlier, ShortChannelID-keyed DecayedLog of decayedlog.go.          *)
(*                                                                         *)
(* bolt is modelled by what the log relies on: one writer at a time        *)
(* (db.rwlock), transactions that commit atomically or not at all, View    *)
(* reading one committed snapshot, Close taking the writer lock, and       *)
(* every transaction begun on a closed database failing with               *)
(* ErrDatabaseNotOpen.                                                     *)
(*                                                                         *)
(* A uint32 is the pair <<high 16 bits, low 16 bits>>, so that             *)
(* math.MaxUint32 and the conversion uint32(int32) keep their full width.  *)
(***************************************************************************)
EXTENDS Integers, Sequences, FiniteSets, TLC

\* ------------------------------------------------------------------ bounds

\* Number of Start calls in one run: quit channels and garbage-collector
\* goroutines are numbered 1..MaxStarts.
MaxStarts == 2

\* Buffer of the notifier's epoch channel (make(chan *BlockEpoch, 1)).
EpochCap == 1

\* Fingerprints (truncated shared-secret hashes) in play.
Hashes == {"h1", "h2"}

\* Concurrent callers of ProcessOnionPacket.
Callers == {"c1", "c2"}

\* Block heights the notifier may announce (int32).
Heights == {256, 257}

Gens == 1..MaxStarts

\* ------------------------------------------------------------------ uint32

\* A non-negative int as a uint32 pair.
U32(n) == <<n \div 65536, n % 65536>>

\* math.MaxUint32
MaxUint32 == <<65535, 65535>>

\* Expiry heights a caller may store: either side of a byte boundary, and
\* the largest uint32.
Expiries == {U32(255), U32(256), MaxUint32}

\* a < b on uint32.
Less(a, b) == a[1] < b[1] \/ (a[1] = b[1] /\ a[2] < b[2])

\* Mutant: the CLTV written low byte first.
PutUint32LittleEndian(v) ==
    <<v[2] % 256, v[2] \div 256, v[1] % 256, v[1] \div 256>>

\* binary.BigEndian.PutUint32(scratch[:], cltv)
PutUint32(v) == <<v[1] \div 256, v[1] % 256, v[2] \div 256, v[2] % 256>>

\* binary.BigEndian.Uint32(v)
Uint32(b) == <<b[1] * 256 + b[2], b[3] * 256 + b[4]>>

\* Mutant: a negative height converted to 0.
Uint32OfInt32Clamped(h) == IF h >= 0 THEN U32(h) ELSE U32(0)

\* uint32(epoch.Height): the int32 taken modulo 2^32.
Uint32OfInt32(h) ==
    IF h >= 0 THEN U32(h)
    ELSE <<65535 - ((-(h + 1)) \div 65536), 65535 - ((-(h + 1)) % 65536)>>

\* What bolt's Bucket.Get returns for a key that is not there.
NoValue == <<>>

\* ------------------------------------------------------------------ state

VARIABLES
    db,            \* d.db: "nil", "open" or "closed"
    bucket,        \* on disk: sharedHashBucket exists
    store,         \* on disk: sharedHashBucket, hash -> 4 bytes or NoValue
    rwlock,        \* bolt's writer lock: 0 free, g when goroutine g holds it
    quit,          \* d.quit: the channel made by the quit-th Start, 0 = nil
    closedQuit,    \* the quit channels that have been closed
    notifier,      \* d.Notifier != nil
    epochs,        \* mockNotifier.epochChan: heights sent, not yet received
    epochsClosed,  \* the epoch channel has been closed
    gc,            \* the garbageCollector goroutines, by Start number
    stopPc,        \* Stop: "idle", or "closing" between close(d.quit) and db.Close()
    hist,          \* per hash: what last happened to its record
    proc,          \* the ProcessOnionPacket callers
    accepts,       \* per hash: packets accepted since its record was last removed
    onion,         \* one onion packet on its way along its route
    chanLog        \* the ShortChannelID-keyed DecayedLog of decayedlog.go

vars == <<db, bucket, store, rwlock, quit, closedQuit, notifier, epochs,
          epochsClosed, gc, stopPc, hist, proc, accepts, onion, chanLog>>

logVars == <<db, bucket, store, rwlock, quit, closedQuit, stopPc>>
gcVars == <<epochs, epochsClosed, gc>>
procVars == <<proc, accepts, onion>>

GcIdle == [pc |-> "none", q |-> 0, height |-> 0]

ProcIdle == [pc |-> "idle", hash |-> "none", cltv |-> MaxUint32, out |-> "none"]

\* No packet has been built.
OnionIdle ==
    [pc |-> "idle", privs |-> <<>>, hops |-> <<>>,
     pkt |-> [ephemeralKey |-> 0, routingInfo |-> <<>>, headerMAC |-> 0],
     out |-> <<>>, tampered |-> FALSE]

\* The ShortChannelIDs and the values in play for the ShortChannelID-keyed
\* log, and the absence of a hash under a ShortChannelID.
ShortChanIDs == {"c1", "c2"}

ChanValues == {U32(100), U32(256)}

NoHash == "none"

\* d := DecayedLog{}: no database, a nil quit channel, no goroutine, and
\* empty storage. buckets: openChannelBucket and its nested
\* sharedHashBucket exist (one transaction creates both). putBy[c]: the
\* hashes stored by a Put with ShortChannelID c and not deleted since.
ChanLogIdle ==
    [db |-> "nil", quit |-> "nil", gc |-> "none", stop |-> "none",
     buckets |-> FALSE,
     openChannels |-> [c \in ShortChanIDs |-> NoHash],
     sharedHashes |-> [h \in Hashes |-> NoValue],
     putBy |-> [c \in ShortChanIDs |-> {}]]

Init ==
    /\ db = "nil"
    /\ bucket = FALSE
    /\ store = [h \in Hashes |-> NoValue]
    /\ rwlock = 0
    /\ quit = 0
    /\ closedQuit = {}
    /\ notifier \in BOOLEAN
    /\ epochs = <<>>
    /\ epochsClosed = FALSE
    /\ gc = [g \in Gens |-> GcIdle]
    /\ stopPc = "idle"
    /\ hist = [h \in Hashes |-> <<"none">>]
    /\ proc = [c \in Callers |-> ProcIdle]
    /\ accepts = [h \in Hashes |-> 0]
    /\ onion = OnionIdle
    /\ chanLog = ChanLogIdle

\* ------------------------------------------------------------------ Get

\* Mutant: a key that is not in the bucket is an error.
ViewFailsOnMissingKey(hash) ==
    IF ~bucket \/ store[hash] = NoValue THEN [value |-> MaxUint32, err |-> TRUE]
    ELSE [value |-> Uint32(store[hash]), err |-> FALSE]

\* The function Get runs in its View transaction, on the committed bucket:
\* an error when the bucket is missing, else the stored CLTV decoded, or
\* math.MaxUint32 left in value when the key is not there.
View(hash) ==
    IF ~bucket THEN [value |-> MaxUint32, err |-> TRUE]
    ELSE IF store[hash] = NoValue THEN [value |-> MaxUint32, err |-> FALSE]
    ELSE [value |-> Uint32(store[hash]), err |-> FALSE]

\* DecayedLog.Get: (value, err). db.View fails on a closed database.
Get(hash) ==
    IF db # "open" THEN [value |-> MaxUint32, err |-> TRUE] ELSE View(hash)

\* A caller's Get call: it reads one snapshot and changes nothing.
CallGet(hash) ==
    /\ db # "nil"
    /\ UNCHANGED vars


\* ------------------------------------------------------------------ Put, Delete

\* Mutant: Put appends the four bytes to the value the key already has.
PutTxAppends(hash, cltv) == [store EXCEPT ![hash] = @ \o PutUint32(cltv)]

\* The bucket after Put's transaction: sharedHashes.Put(hash, scratch[:]).
PutTx(hash, cltv) == [store EXCEPT ![hash] = PutUint32(cltv)]

\* Mutant: the transaction deletes every key of the bucket.
DeleteTxClearsBucket(hash) == [h \in Hashes |-> NoValue]

\* Mutant: the transaction commits without deleting the key.
DeleteTxKeeps(hash) == store

\* The bucket after Delete's transaction: sharedHashes.Delete(hash).
DeleteTx(hash) == [store EXCEPT ![hash] = NoValue]

\* Mutant: a failed transaction leaves the key it touched without a value.
HalfWritten(hash) == [store EXCEPT ![hash] = NoValue]

\* The bucket after a transaction on hash that returned an error: bolt
\* rolls the transaction back.
RolledBack(hash) == store

\* A write transaction can begin: the database is open and no writer holds
\* the lock (db.Batch -> db.Update -> beginRWTx).
CanWrite == db = "open" /\ rwlock = 0

HistPut(hash, cltv) == [hist EXCEPT ![hash] = <<"put", cltv>>]

HistDelete(hash) ==
    [hist EXCEPT ![hash] = IF @ = <<"none">> THEN @ ELSE <<"deleted">>]

\* DecayedLog.Put returning nil (err FALSE) or an error (err TRUE): one
\* Batch transaction. It commits, or it fails in the store and is rolled
\* back, or the database is closed and it fails.
PutReturns(hash, cltv, err) ==
    /\ db # "nil"
    /\ \/ /\ ~err
          /\ CanWrite
          /\ store' = PutTx(hash, cltv)
          /\ bucket' = TRUE
          /\ hist' = HistPut(hash, cltv)
       \/ /\ err
          /\ CanWrite
          /\ store' = RolledBack(hash)
          /\ UNCHANGED <<bucket, hist>>
       \/ /\ err
          /\ db = "closed"
          /\ UNCHANGED <<store, bucket, hist>>
    /\ UNCHANGED <<db, rwlock, quit, closedQuit, stopPc, notifier, gcVars,
                   procVars, chanLog>>

\* DecayedLog.Put: return d.db.Batch(...).
Put(hash, cltv) == \E err \in BOOLEAN : PutReturns(hash, cltv, err)

\* DecayedLog.Delete returning nil or an error: one Batch transaction.
\* Deleting a key that is not there is no error.
DeleteReturns(hash, err) ==
    /\ db # "nil"
    /\ \/ /\ ~err
          /\ CanWrite
          /\ store' = DeleteTx(hash)
          /\ bucket' = TRUE
          /\ hist' = HistDelete(hash)
          /\ accepts' = [accepts EXCEPT ![hash] = 0]
       \/ /\ err
          /\ CanWrite
          /\ store' = RolledBack(hash)
          /\ UNCHANGED <<bucket, hist, accepts>>
       \/ /\ err
          /\ db = "closed"
          /\ UNCHANGED <<store, bucket, hist, accepts>>
    /\ UNCHANGED <<db, rwlock, quit, closedQuit, stopPc, notifier, gcVars, proc,
                   onion, chanLog>>

\* DecayedLog.Delete: return d.db.Batch(...).
Delete(hash) == \E err \in BOOLEAN : DeleteReturns(hash, err)

\* ------------------------------------------------------------------ Start, Stop

\* Mutant: every Start opens a fresh, empty database.
OpenDbFresh == [h \in Hashes |-> NoValue]

\* channeldb.Open(directory): the bucket as the directory holds it.
OpenDb == store

\* Mutant: the quit channel is made by the first Start only.
ReusedQuit == IF quit = 0 THEN 1 ELSE quit

\* d.quit = make(chan struct{}): a channel no Start has made before.
NewQuit == quit + 1

\* Mutant: the garbage collector is launched whether or not a notifier is set.
LaunchAlways(g) == [gc EXCEPT ![g] = [pc |-> "loop", q |-> 0, height |-> 0]]

\* if d.Notifier != nil { d.wg.Add(1); go d.garbageCollector() }
Launch(g) ==
    IF notifier
    THEN [gc EXCEPT ![g] = [pc |-> "loop", q |-> 0, height |-> 0]]
    ELSE gc

\* DecayedLog.Start, called on a log that is not open: a fresh quit channel,
\* the database opened, the bucket created in an Update transaction and,
\* with a notifier, the garbage collector launched. When the Update fails
\* Start returns the error with the database left open and no goroutine.
\* channeldb.Open is taken to succeed: after a failed Open d.db is nil and
\* every later call on the log panics.
StartReturns(err) ==
    /\ db \in {"nil", "closed"}
    /\ stopPc = "idle"
    /\ quit < MaxStarts
    /\ rwlock = 0
    /\ quit' = NewQuit
    /\ \/ /\ ~err
          /\ db' = "open"
          /\ bucket' = TRUE
          /\ gc' = Launch(NewQuit)
       \/ /\ err
          /\ db' = "open"
          /\ UNCHANGED <<bucket, gc>>
    /\ store' = OpenDb
    /\ UNCHANGED <<rwlock, closedQuit, notifier, epochs, epochsClosed, stopPc,
                   hist, procVars, chanLog>>

\* DecayedLog.Start: it returns nil or the error of its Update.
Start == \E err \in BOOLEAN : StartReturns(err)

\* DecayedLog.Stop, first statement: close(d.quit).
StopBegin ==
    /\ db = "open"
    /\ stopPc = "idle"
    /\ closedQuit' = closedQuit \cup {quit}
    /\ stopPc' = "closing"
    /\ UNCHANGED <<db, bucket, store, rwlock, quit, notifier, gcVars, hist,
                   procVars, chanLog>>

\* DecayedLog.Stop, second statement: d.db.Close(), which takes bolt's
\* writer lock and so waits for the write transaction in flight.
StopClose ==
    /\ stopPc = "closing"
    /\ rwlock = 0
    /\ db' = "closed"
    /\ stopPc' = "idle"
    /\ UNCHANGED <<bucket, store, rwlock, quit, closedQuit, notifier, gcVars, hist, procVars, chanLog>>


\* ------------------------------------------------------------------ notifier

\* The test sends a block epoch: notifier.epochChan <- &BlockEpoch{Height: h}.
\* The send blocks while the buffer is full.
Deliver(h) ==
    /\ notifier
    /\ ~epochsClosed
    /\ Len(epochs) < EpochCap
    /\ epochs' = Append(epochs, h)
    /\ UNCHANGED <<logVars, notifier, epochsClosed, gc, hist, procVars, chanLog>>

\* The notifier shuts down and closes the epoch channel.
CloseEpochs ==
    /\ notifier
    /\ ~epochsClosed
    /\ epochsClosed' = TRUE
    /\ UNCHANGED <<logVars, notifier, epochs, gc, hist, procVars, chanLog>>

\* ------------------------------------------------------------------ garbageCollector

\* Mutant: a CLTV equal to the height counts as expired.
ExpiredAtHeight(height) ==
    {h \in Hashes : /\ store[h] # NoValue
                    /\ ~Less(Uint32OfInt32(height), Uint32(store[h]))}

\* expiredCltv: the keys whose stored CLTV is below uint32(epoch.Height).
Expired(height) ==
    {h \in Hashes : /\ store[h] # NoValue
                    /\ Less(Uint32(store[h]), Uint32OfInt32(height))}

\* Mutant: the sweep deletes the first expired key only.
SweepTxFirstOnly(height) ==
    [h \in Hashes |->
        IF Expired(height) # {} /\ h = CHOOSE x \in Expired(height) : TRUE
        THEN NoValue ELSE store[h]]

\* Mutant: the sweep collects the expired keys and deletes none.
SweepTxKeeps(height) == store

\* The bucket after the sweep's transaction: every expired key deleted.
SweepTx(height) ==
    [h \in Hashes |-> IF h \in Expired(height) THEN NoValue ELSE store[h]]

HistSweep(height) ==
    [h \in Hashes |-> IF h \in Expired(height) /\ hist[h][1] = "put"
                      THEN <<"swept", height>> ELSE hist[h]]

\* Mutant: the goroutine returns after its first sweep.
AfterSweepReturn == "done"

\* for { select { ... } }: after a sweep the goroutine selects again.
AfterSweep == "loop"

GcSet(g, pc, q, height) ==
    [gc EXCEPT ![g] = [pc |-> pc, q |-> q, height |-> height]]

\* The goroutine reaches the select: on its first pass it has registered
\* with the notifier (the mock never fails), and it evaluates d.quit.
GcSelect(g) ==
    /\ gc[g].pc = "loop"
    /\ gc' = GcSet(g, "select", quit, 0)
    /\ UNCHANGED <<logVars, notifier, epochs, epochsClosed, hist, procVars, chanLog>>

\* case epoch, ok := <-epochClient.Epochs with ok true.
GcRecv(g) ==
    /\ gc[g].pc = "select"
    /\ epochs # <<>>
    /\ epochs' = Tail(epochs)
    /\ gc' = GcSet(g, "batch", 0, Head(epochs))
    /\ UNCHANGED <<logVars, notifier, epochsClosed, hist, procVars, chanLog>>

\* case epoch, ok := <-epochClient.Epochs with ok false: the channel is
\* closed and drained, the goroutine returns an error.
GcEpochsClosed(g) ==
    /\ gc[g].pc = "select"
    /\ epochs = <<>>
    /\ epochsClosed
    /\ gc' = GcSet(g, "shutdown", 0, 0)
    /\ UNCHANGED <<logVars, notifier, epochs, epochsClosed, hist, procVars, chanLog>>

\* case <-d.quit: break outer, return nil.
GcQuit(g) ==
    /\ gc[g].pc = "select"
    /\ gc[g].q \in closedQuit
    /\ gc' = GcSet(g, "done", 0, 0)
    /\ UNCHANGED <<logVars, notifier, epochs, epochsClosed, hist, procVars, chanLog>>

\* d.db.Batch begins the sweep's transaction: it takes the writer lock, or
\* fails at once on a closed database and the goroutine returns the error.
GcBatch(g) ==
    /\ gc[g].pc = "batch"
    /\ \/ /\ CanWrite
          /\ rwlock' = g
          /\ gc' = GcSet(g, "tx", 0, gc[g].height)
       \/ /\ db = "closed"
          /\ gc' = GcSet(g, "refused", 0, 0)
          /\ UNCHANGED rwlock
    /\ UNCHANGED <<db, bucket, store, quit, closedQuit, stopPc, notifier, epochs,
                   epochsClosed, hist, procVars, chanLog>>

\* The sweep's transaction ends: it commits every deletion and the
\* goroutine loops, or it fails, nothing is deleted and the goroutine
\* returns the error.
GcCommit(g) ==
    /\ gc[g].pc = "tx"
    /\ rwlock' = 0
    /\ \/ /\ bucket
          /\ store' = SweepTx(gc[g].height)
          /\ hist' = HistSweep(gc[g].height)
          /\ accepts' = [h \in Hashes |->
                            IF h \in Expired(gc[g].height) THEN 0 ELSE accepts[h]]
          /\ gc' = GcSet(g, AfterSweep, 0, 0)
       \/ /\ gc' = GcSet(g, "failed", 0, 0)
          /\ UNCHANGED <<store, hist, accepts>>
    /\ UNCHANGED <<db, bucket, quit, closedQuit, stopPc, notifier, epochs,
                   epochsClosed, proc, onion, chanLog>>

\* ------------------------------------------------------------------ ProcessOnionPacket

\* The packets in play: a fingerprint and the outgoing CLTV of its hop
\* payload. The packets of h2 name no next hop (this node is the exit).
Packets == [hash : Hashes, cltv : Expiries]

ExitHop(hash) == hash = "h2"

ProcSet(c, pc, hash, cltv, out) ==
    [proc EXCEPT ![c] = [pc |-> pc, hash |-> hash, cltv |-> cltv, out |-> out]]

\* The replay check of an authenticated packet: the log's Get of the
\* fingerprint. An error fails the call, a stored expiry is a replay, the
\* absent sentinel lets the packet through to the Put.
ProcCheck(c, p) ==
    /\ proc[c].pc = "idle"
    /\ db # "nil"
    /\ \/ /\ Get(p.hash).err
          /\ proc' = ProcSet(c, "idle", p.hash, MaxUint32, "StorageError")
       \/ /\ ~Get(p.hash).err
          /\ Get(p.hash).value # MaxUint32
          /\ proc' = ProcSet(c, "idle", p.hash, MaxUint32, "ReplayDetected")
       \/ /\ ~Get(p.hash).err
          /\ Get(p.hash).value = MaxUint32
          /\ proc' = ProcSet(c, "put", p.hash, p.cltv, "none")
    /\ UNCHANGED <<logVars, notifier, gcVars, hist, accepts, onion, chanLog>>

\* The packet is recorded with the log's Put(hash, outgoing CLTV) and the
\* hop payload is handed back: ExitNode or MoreHops.
ProcPut(c) ==
    /\ proc[c].pc = "put"
    /\ db # "nil"
    /\ \/ /\ CanWrite
          /\ store' = PutTx(proc[c].hash, proc[c].cltv)
          /\ bucket' = TRUE
          /\ hist' = HistPut(proc[c].hash, proc[c].cltv)
          /\ accepts' = [accepts EXCEPT ![proc[c].hash] = IF @ < 2 THEN @ + 1 ELSE @]
          /\ proc' = ProcSet(c, "idle", proc[c].hash, MaxUint32,
                             IF ExitHop(proc[c].hash) THEN "ExitNode" ELSE "MoreHops")
       \/ /\ CanWrite
          /\ proc' = ProcSet(c, "idle", proc[c].hash, MaxUint32, "StorageError")
          /\ UNCHANGED <<store, bucket, hist, accepts>>
       \/ /\ db = "closed"
          /\ proc' = ProcSet(c, "idle", proc[c].hash, MaxUint32, "StorageError")
          /\ UNCHANGED <<store, bucket, hist, accepts>>
    /\ UNCHANGED <<db, rwlock, quit, closedQuit, stopPc, notifier, gcVars, onion, chanLog>>

\* ------------------------------------------------------------------ onion packet codec

\* The codec of sections 4.1 to 4.5, on small numbers. The curve is the
\* multiplicative group modulo a prime, a byte is a cell of three bits, a
\* hop's slot is two cells (its payload, then the tag of the packet it
\* forwards), and hashes and keystreams are fixed arithmetic functions.

\* The longest route (MaxHops).
NumMaxHops == 3

\* The group: integers modulo FieldPrime under multiplication, generated
\* by Generator, of order GroupOrder.
FieldPrime == 23

Generator == 5

GroupOrder == 22

\* The values of one cell.
Cells == 0 .. 7

\* Cells in the routing-info region: NumMaxHops slots of two cells.
RoutingInfoSize == NumMaxHops * 2

\* The hops' private keys, the sender's session key, and the payloads a
\* sender may give a hop.
HopKeys == {2, 3}

SessionKeys == {3}

HopPayloads == {1, 4, 6}

\* HopPayload fields packed in one cell: the next-hop address (zero is the
\* exit sentinel) and the outgoing time-lock.
NextAddress(payload) == payload \div 4

OutgoingCltv(payload) == payload % 4

\* Marks a result that carries no payload.
NoPayload == 8

RECURSIVE ModExp(_, _)
\* Scalar multiplication of a group element: b to the power e.
ModExp(b, e) == IF e = 0 THEN 1 ELSE (b * ModExp(b, e - 1)) % FieldPrime

\* The hash of a group element.
Sha256(x) == (x * 7 + 3) % 8

\* 4.1: the Diffie-Hellman value of a public and a private key, hashed.
generateSharedSecret(pub, priv) == Sha256(ModExp(pub, priv))

\* 4.1: the blinding factor, a hash of the ephemeral key and the secret.
computeBlindingFactor(ephem, secret) == 1 + ((ephem * 3 + secret) % 5)

\* Mutant: the ephemeral key is handed on as it came.
unblindedGroupElement(ephem, factor) == ephem

\* 4.1: the ephemeral key rotated by a blinding factor.
blindGroupElement(ephem, factor) == ModExp(ephem, factor)

\* 4.2: the sub-key of a shared secret for a purpose.
generateKey(tag, secret) ==
    IF tag = "rho" THEN (secret * 5 + 1) % 8 ELSE (secret * 3 + 2) % 8

\* The keystream of a key, n cells long.
generateCipherStream(key, n) == [i \in 1 .. n |-> (key * 7 + i * i * 3 + i) % 8]

\* Exclusive or of two cells, bit by bit.
xor(a, b) ==
      ((a + b) % 2)
    + ((a \div 2 + b \div 2) % 2) * 2
    + ((a \div 4 + b \div 4) % 2) * 4

\* Exclusive or of a region with the first cells of a keystream.
xorCells(region, stream) == [i \in 1 .. Len(region) |-> xor(region[i], stream[i])]

zeros(n) == [i \in 1 .. n |-> 0]

RECURSIVE weightedSum(_, _)
weightedSum(msg, k) ==
    IF k = 0 THEN 0 ELSE (2 * k + 1) * msg[k] + weightedSum(msg, k - 1)

\* Mutant: the tag covers the first slot of the region only.
calcMacOfFirstSlot(key, msg) == (key + weightedSum(msg, 2)) % 8

\* 4.2, 4.5: the integrity tag of a region under a "mu" key. Every cell
\* counts with an odd weight, so that no change of one cell keeps the tag.
calcMac(key, msg) == (key + weightedSum(msg, Len(msg))) % 8

RECURSIVE ephemPriv(_, _, _)
\* 4.1, sender side: the session key blinded for hop i of the route.
ephemPriv(route, sess, i) ==
    IF i = 1 THEN sess
    ELSE LET x == ephemPriv(route, sess, i - 1)
         IN (x * computeBlindingFactor(ModExp(Generator, x),
                                       generateSharedSecret(route[i - 1], x)))
                % GroupOrder

\* 4.1, sender side: the secret shared with hop i.
sharedSecret(route, sess, i) ==
    generateSharedSecret(route[i], ephemPriv(route, sess, i))

RECURSIVE generateHeaderPadding(_, _, _)
\* 4.3: the filler after the first i hops: what their decryptions leave in
\* the cells that each of them appends.
generateHeaderPadding(route, sess, i) ==
    IF i = 0 THEN <<>>
    ELSE LET prev == generateHeaderPadding(route, sess, i - 1) \o zeros(2)
             stream == generateCipherStream(
                           generateKey("rho", sharedSecret(route, sess, i)),
                           RoutingInfoSize + 2)
             off == RoutingInfoSize + 2 - Len(prev)
         IN [k \in 1 .. Len(prev) |-> xor(prev[k], stream[off + k])]

RECURSIVE mixHeader(_, _, _, _)
\* 4.4: the routing-info region and its tag with the layers of hops i to
\* the last applied, innermost first.
mixHeader(route, sess, hops, i) ==
    LET n == Len(route)
        inner == IF i = n THEN [info |-> zeros(RoutingInfoSize), mac |-> 0]
                 ELSE mixHeader(route, sess, hops, i + 1)
        secret == sharedSecret(route, sess, i)
        shifted == <<hops[i], inner.mac>>
                       \o SubSeq(inner.info, 1, RoutingInfoSize - 2)
        enc == xorCells(shifted,
                        generateCipherStream(generateKey("rho", secret),
                                             RoutingInfoSize))
        filler == generateHeaderPadding(route, sess, n - 1)
        start == RoutingInfoSize - Len(filler)
        info == IF i = n
                THEN [k \in 1 .. RoutingInfoSize |->
                         IF k > start THEN filler[k - start] ELSE enc[k]]
                ELSE enc
    IN [info |-> info, mac |-> calcMac(generateKey("mu", secret), info)]

\* 4.4: build(route, sessionPrivateKey, hopPayloads).
NewOnionPacket(route, sess, hops) ==
    LET header == mixHeader(route, sess, hops, 1)
    IN [ephemeralKey |-> ModExp(Generator, sess),
        routingInfo |-> header.info,
        headerMAC |-> header.mac]

\* 4.5: process(packet, nodePrivateKey) without the replay check: the tag
\* is verified, one layer is decrypted, the leading slot is this hop's
\* payload and the rest, under the blinded ephemeral key, the next packet.
Process(pkt, priv) ==
    LET secret == generateSharedSecret(pkt.ephemeralKey, priv)
        dec == xorCells(pkt.routingInfo \o zeros(2),
                        generateCipherStream(generateKey("rho", secret),
                                             RoutingInfoSize + 2))
        next == [ephemeralKey |->
                     blindGroupElement(pkt.ephemeralKey,
                         computeBlindingFactor(pkt.ephemeralKey, secret)),
                 routingInfo |-> SubSeq(dec, 3, RoutingInfoSize + 2),
                 headerMAC |-> dec[2]]
    IN IF calcMac(generateKey("mu", secret), pkt.routingInfo) # pkt.headerMAC
       THEN [code |-> "IntegrityFailure", payload |-> NoPayload, next |-> pkt]
       ELSE IF NextAddress(dec[1]) = 0
       THEN [code |-> "ExitNode", payload |-> dec[1], next |-> pkt]
       ELSE [code |-> "MoreHops", payload |-> dec[1], next |-> next]

\* The sender builds a packet for a route of hops with the given private
\* keys and hands it to the first hop.
Build(privs, sess, hops) ==
    /\ onion.pc = "idle"
    /\ onion' = [pc |-> "built", privs |-> privs, hops |-> hops,
                 pkt |-> NewOnionPacket([i \in 1 .. Len(privs) |->
                                            ModExp(Generator, privs[i])],
                                        sess, hops),
                 out |-> <<>>, tampered |-> FALSE]
    /\ UNCHANGED <<logVars, notifier, gcVars, hist, proc, accepts, chanLog>>

\* One cell of the packet's routing-info region (i up to RoutingInfoSize)
\* or its tag (i beyond) is altered before the first hop receives it.
Tamper(i, v) ==
    /\ onion.pc = "built"
    /\ onion.out = <<>>
    /\ ~onion.tampered
    /\ IF i <= RoutingInfoSize
       THEN /\ v # onion.pkt.routingInfo[i]
            /\ onion' = [onion EXCEPT !.pkt.routingInfo[i] = v,
                                      !.tampered = TRUE]
       ELSE /\ v # onion.pkt.headerMAC
            /\ onion' = [onion EXCEPT !.pkt.headerMAC = v, !.tampered = TRUE]
    /\ UNCHANGED <<logVars, notifier, gcVars, hist, proc, accepts, chanLog>>

\* The next hop of the route processes the packet it was handed, with its
\* own private key; a hop that returns MoreHops hands the next packet on.
ProcessHop ==
    /\ onion.pc = "built"
    /\ Len(onion.out) < Len(onion.privs)
    /\ IF onion.out = <<>> THEN TRUE
       ELSE onion.out[Len(onion.out)].code = "MoreHops"
    /\ LET r == Process(onion.pkt, onion.privs[Len(onion.out) + 1])
       IN onion' = [onion EXCEPT
                       !.out = Append(@, [code |-> r.code, payload |-> r.payload]),
                       !.pkt = r.next]
    /\ UNCHANGED <<logVars, notifier, gcVars, hist, proc, accepts, chanLog>>

\* ------------------------------------------------------------------ specification

Next ==
    \/ Start
    \/ StopBegin
    \/ StopClose
    \/ \E h \in Hashes : CallGet(h)
    \/ \E h \in Hashes, e \in Expiries : Put(h, e)
    \/ \E h \in Hashes : Delete(h)
    \/ \E h \in Heights : Deliver(h)
    \/ CloseEpochs
    \/ \E g \in Gens : GcSelect(g)
    \/ \E g \in Gens : GcRecv(g)
    \/ \E g \in Gens : GcEpochsClosed(g)
    \/ \E g \in Gens : GcQuit(g)
    \/ \E g \in Gens : GcBatch(g)
    \/ \E g \in Gens : GcCommit(g)

Spec == Init /\ [][Next]_vars

\* The Go scheduler runs every goroutine that can take a step: a select
\* with a ready case proceeds, a transaction commits, and a goroutine
\* waiting for bolt's writer lock gets it (sync.Mutex hands the lock to a
\* starving waiter). The callers and the notifier are free to stop.
Fairness ==
    /\ \A g \in Gens : WF_vars(GcSelect(g))
    /\ \A g \in Gens : WF_vars(GcRecv(g) \/ GcEpochsClosed(g) \/ GcQuit(g))
    /\ \A g \in Gens : SF_vars(GcBatch(g))
    /\ \A g \in Gens : WF_vars(GcCommit(g))
    /\ SF_vars(StopClose)

FairSpec == Init /\ [][Next]_vars /\ Fairness


\* The packet processor's callers racing on one log without a notifier.
InitProc == Init /\ notifier = FALSE

NextProc ==
    \/ Start
    \/ StopBegin
    \/ StopClose
    \/ \E h \in Hashes : Delete(h)
    \/ \E c \in Callers, p \in Packets : ProcCheck(c, p)
    \/ \E c \in Callers : ProcPut(c)

SpecProc == InitProc /\ [][NextProc]_vars

\* ------------------------------------------------------------------ decayedlog.go

\* The DecayedLog of src/persistlog/decayedlog.go, keyed by ShortChannelID.
\* A panic ends the process: nothing runs after it.

\* DecayedLog.Get(shortChanID, hash) of decayedlog.go: (value, err). The
\* View looks up the hash recorded under the ShortChannelID in
\* openChannels and reads sharedHashes under that hash; the hash it was
\* given is not used. value is the zero uint32 when the View fails.
ChanGet(c, hash) ==
    LET fails == [value |-> U32(0), err |-> TRUE]
        dbHash == chanLog.openChannels[c]
    IN  IF chanLog.db # "open" THEN fails
        ELSE IF ~chanLog.buckets THEN fails
        ELSE IF dbHash = NoHash THEN fails
        ELSE IF chanLog.sharedHashes[dbHash] = NoValue THEN fails
        ELSE [value |-> Uint32(chanLog.sharedHashes[dbHash]), err |-> FALSE]

\* A caller's Get: it reads and changes nothing.
ChanCallGet(c, hash) ==
    /\ chanLog.db # "nil"
    /\ chanLog.stop # "panic"
    /\ UNCHANGED vars

\* DecayedLog.Put(shortChanID, hash, value) of decayedlog.go: one Update
\* that creates the buckets, stores the value under the hash and the hash
\* under the ShortChannelID; on a database that is not open it fails.
ChanPut(c, hash, value) ==
    /\ chanLog.db # "nil"
    /\ chanLog.stop # "panic"
    /\ chanLog' =
          IF chanLog.db = "open"
          THEN [chanLog EXCEPT
                   !.buckets = TRUE,
                   !.sharedHashes[hash] = PutUint32(value),
                   !.openChannels[c] = hash,
                   !.putBy[c] = @ \cup {hash}]
          ELSE chanLog
    /\ UNCHANGED <<logVars, notifier, gcVars, hist, procVars>>

\* DecayedLog.Delete(shortChanID, hash) of decayedlog.go: one Update that
\* creates the buckets, deletes the hash from sharedHashes and the
\* ShortChannelID from openChannels.
ChanDelete(c, hash) ==
    /\ chanLog.db # "nil"
    /\ chanLog.stop # "panic"
    /\ chanLog' =
          IF chanLog.db = "open"
          THEN [chanLog EXCEPT
                   !.buckets = TRUE,
                   !.sharedHashes[hash] = NoValue,
                   !.openChannels[c] = NoHash,
                   !.putBy = [k \in ShortChanIDs |->
                                 IF k = c THEN {} ELSE chanLog.putBy[k] \ {hash}]]
          ELSE chanLog
    /\ UNCHANGED <<logVars, notifier, gcVars, hist, procVars>>

\* DecayedLog.Start() of decayedlog.go: the database opened and the garbage
\* collector launched. d.quit is not assigned.
ChanStart ==
    /\ chanLog.db = "nil"
    /\ chanLog.stop = "none"
    /\ chanLog' = [chanLog EXCEPT !.db = "open", !.gc = "loop"]
    /\ UNCHANGED <<logVars, notifier, gcVars, hist, procVars>>

\* garbageCollector of decayedlog.go reaches its select.
ChanGcSelect ==
    /\ chanLog.gc = "loop"
    /\ chanLog.stop # "panic"
    /\ chanLog' = [chanLog EXCEPT !.gc = "select"]
    /\ UNCHANGED <<logVars, notifier, gcVars, hist, procVars>>

\* The select proceeds: case <-d.quit when the channel is closed (a nil
\* channel is never ready), break outer and return; otherwise the timer
\* of time.After fires and the goroutine loops.
ChanGcWake ==
    /\ chanLog.gc = "select"
    /\ chanLog.stop # "panic"
    /\ chanLog' = [chanLog EXCEPT
                      !.gc = IF chanLog.quit = "closed" THEN "done" ELSE "loop"]
    /\ UNCHANGED <<logVars, notifier, gcVars, hist, procVars>>

\* DecayedLog.Stop() of decayedlog.go: close(d.quit), which panics on a nil
\* channel, then d.db.Close().
ChanStop ==
    /\ chanLog.db = "open"
    /\ chanLog.stop = "none"
    /\ chanLog' =
          IF chanLog.quit = "nil"
          THEN [chanLog EXCEPT !.stop = "panic"]
          ELSE [chanLog EXCEPT !.quit = "closed", !.db = "closed", !.stop = "done"]
    /\ UNCHANGED <<logVars, notifier, gcVars, hist, procVars>>

NextChanLog ==
    \/ ChanStart
    \/ ChanStop
    \/ \E c \in ShortChanIDs, h \in Hashes : ChanCallGet(c, h)
    \/ \E c \in ShortChanIDs, h \in Hashes, v \in ChanValues : ChanPut(c, h, v)
    \/ \E c \in ShortChanIDs, h \in Hashes : ChanDelete(c, h)
    \/ ChanGcSelect
    \/ ChanGcWake

SpecChanLog == Init /\ [][NextChanLog]_vars

\* The sweep over the whole range of int32 heights and uint32 expiries: a
\* started log with a notifier that holds any records, its garbage
\* collector at the top of its loop.
SweepHeights == {0, 256, -1, -65536, -2147483647 - 1}

SweepExpiries == {U32(0), U32(255), <<32768, 0>>, <<65535, 65534>>, MaxUint32}

InitSweep ==
    /\ db = "open"
    /\ bucket = TRUE
    /\ store \in [Hashes -> {NoValue} \cup {PutUint32(e) : e \in SweepExpiries}]
    /\ rwlock = 0
    /\ quit = 1
    /\ closedQuit = {}
    /\ notifier = TRUE
    /\ epochs = <<>>
    /\ epochsClosed = FALSE
    /\ gc = [g \in Gens |-> IF g = 1 THEN [GcIdle EXCEPT !.pc = "loop"] ELSE GcIdle]
    /\ stopPc = "idle"
    /\ hist = [h \in Hashes |-> IF store[h] = NoValue THEN <<"none">>
                                 ELSE <<"put", Uint32(store[h])>>]
    /\ proc = [c \in Callers |-> ProcIdle]
    /\ accepts = [h \in Hashes |-> 0]
    /\ onion = OnionIdle
    /\ chanLog = ChanLogIdle

NextSweep ==
    \/ StopBegin
    \/ StopClose
    \/ \E h \in SweepHeights : Deliver(h)
    \/ \E g \in Gens : GcSelect(g)
    \/ \E g \in Gens : GcRecv(g)
    \/ \E g \in Gens : GcBatch(g)
    \/ \E g \in Gens : GcCommit(g)

SpecSweep == InitSweep /\ [][NextSweep]_vars

\* One packet built, possibly altered in one cell, and processed hop by hop.
NextCodec ==
    \/ \E n \in 1 .. NumMaxHops :
          \E privs \in [1 .. n -> HopKeys], sess \in SessionKeys,
             hops \in [1 .. n -> HopPayloads] : Build(privs, sess, hops)
    \/ \E i \in 1 .. RoutingInfoSize + 1, v \in Cells : Tamper(i, v)
    \/ ProcessHop

SpecCodec == Init /\ [][NextCodec]_vars


\* ------------------------------------------------------------------ claims

\* The goroutine has returned: nil after the quit case ("done"), or an
\* error after the epoch channel was closed ("shutdown"), after Batch on a
\* closed database ("refused") or after a failed transaction ("failed").
Exited(g) == gc[g].pc \in {"done", "shutdown", "refused", "failed"}

\* Start has returned nil on a log with a notifier and Stop has not been
\* called since.
Running ==
    /\ db = "open"
    /\ stopPc = "idle"
    /\ quit \in Gens
    /\ gc[quit].pc # "none"

\* C1: of two callers running the replay check on one fingerprint, at most
\* one observes it absent: never are two callers both past the Get, having
\* seen the same fingerprint absent, and about to Put it.
C1_OneCallerSeesAbsent ==
    \A c1 \in Callers, c2 \in Callers :
        (c1 # c2 /\ proc[c1].pc = "put" /\ proc[c2].pc = "put")
            => proc[c1].hash # proc[c2].hash

\* C2: a packet whose fingerprint has no record passes the replay check,
\* and processing again the packet that was accepted last, with no Delete
\* or sweep since, yields ReplayDetected and leaves the log's records as
\* they were.
C2_SecondCallIsReplay ==
    [][\A c \in Callers, p \in Packets :
          /\ (ProcCheck(c, p) /\ db = "open" /\ bucket /\ store[p.hash] = NoValue)
                => proc'[c].pc = "put"
          /\ (ProcCheck(c, p) /\ db = "open" /\ hist[p.hash] = <<"put", p.cltv>>)
                => (proc'[c].out = "ReplayDetected" /\ store' = store)]_vars

\* C3: when a sweep for height H commits, Get of every fingerprint whose
\* expiry was below H returns the absent sentinel and Get of every other
\* fingerprint returns what it returned before the sweep.
C3_SweepDeletesExactlyExpired ==
    [][\A g \in Gens :
          (gc[g].pc = "tx" /\ gc'[g].pc = AfterSweep)
              => \A f \in Hashes :
                    Get(f)' = IF Less(Get(f).value, U32(gc[g].height))
                              THEN [value |-> MaxUint32, err |-> FALSE]
                              ELSE Get(f)]_vars

\* A sweep at height 256 has removed one record and left a record of
\* expiry 256 in place.
C3_Witness ==
    \E f1 \in Hashes, f2 \in Hashes :
        /\ hist[f1] = <<"swept", 256>>
        /\ Get(f1) = [value |-> MaxUint32, err |-> FALSE]
        /\ hist[f2] = <<"put", U32(256)>>
        /\ Get(f2) = [value |-> U32(256), err |-> FALSE]

\* C4: on an open log, while the last thing that happened to f's record is
\* a successful Put(f, e) (no Delete of f, no later Put, no sweep that
\* expired it), Get(f) returns e and no error.
C4_GetReturnsPut ==
    \A f \in Hashes :
        (db = "open" /\ hist[f][1] = "put")
            => Get(f) = [value |-> hist[f][2], err |-> FALSE]

C4_Witness ==
    /\ db = "open"
    /\ hist["h1"] = <<"put", U32(256)>>
    /\ hist["h2"] = <<"put", U32(255)>>
    /\ Get("h1").value = U32(256)

\* C5: on an open log, once Put(f, e) and then Delete(f) have succeeded,
\* Get(f) returns math.MaxUint32 and a nil error until f is Put again.
C5_GetAbsentAfterDelete ==
    \A f \in Hashes :
        (db = "open" /\ hist[f] = <<"deleted">>)
            => Get(f) = [value |-> MaxUint32, err |-> FALSE]

C5_Witness ==
    /\ db = "open"
    /\ hist["h1"] = <<"deleted">>
    /\ hist["h2"][1] = "put"
    /\ Get("h1").value = MaxUint32

\* C6: the records survive a restart of a log that had been started: what
\* Get returns just before Stop closes the database is what the database
\* holds while it is closed, and what Get returns just after the next Start.
C6_RestartKeepsRecords ==
    [][\A f \in Hashes :
          /\ (bucket /\ db = "open" /\ db' = "closed") => View(f)' = Get(f)
          /\ (bucket /\ db = "closed" /\ db' = "closed") => View(f)' = View(f)
          /\ (bucket /\ db = "closed" /\ db' = "open") => Get(f)' = View(f)]_vars

\* After a restart one record is reported with its expiry and a deleted
\* one is absent.
C6_Witness ==
    /\ quit = 2
    /\ db = "open"
    /\ hist["h1"] = <<"put", U32(255)>>
    /\ hist["h2"] = <<"deleted">>
    /\ Get("h1") = [value |-> U32(255), err |-> FALSE]
    /\ Get("h2") = [value |-> MaxUint32, err |-> FALSE]

\* The log holds a record of f whose expiry is below height h.
HoldsExpired(f, h) == hist[f][1] = "put" /\ Less(hist[f][2], U32(h))

\* Height event h waits in the epoch channel of a running log that holds
\* a record of f with an expiry below h.
EventPending(f, h) ==
    /\ Running
    /\ \E i \in 1..Len(epochs) : epochs[i] = h
    /\ HoldsExpired(f, h)

\* The transaction of some sweep has failed.
SweepFailed == \E g \in Gens : gc[g].pc = "failed"

C8_StopWaitsForSweep ==
    db = "closed" => (rwlock = 0 /\ \A g \in Gens : gc[g].pc = "none" \/ Exited(g))

\* C9: once Stop has closed the quit channel of a garbage collector, that
\* goroutine eventually exits, and once it has returned it sweeps no more.
C9_GcExitsAfterStop ==
    /\ \A g \in Gens : (g \in closedQuit /\ gc[g].pc # "none") ~> Exited(g)
    /\ [][\A g \in Gens : Exited(g) => gc'[g] = gc[g]]_vars

C11_NoNotifierKeepsRecords ==
    /\ [](~notifier => \A g \in Gens : gc[g].pc = "none")
    /\ [][\A f \in Hashes :
            (~notifier /\ store[f] # NoValue /\ store'[f] = NoValue)
                => (Delete(f) /\ hist'[f] = <<"deleted">>)]_vars

\* Without a notifier the log has been restarted, one record has lasted
\* through the restart and another has been deleted.
C11_Witness ==
    /\ ~notifier
    /\ quit = 2
    /\ db = "open"
    /\ hist["h1"] = <<"put", U32(255)>>
    /\ store["h1"] = PutUint32(U32(255))
    /\ hist["h2"] = <<"deleted">>
    /\ store["h2"] = NoValue

\* C12: a Put(f, e) that commits leaves one four-byte record for f that
\* Get reports as e, whatever f held before, and leaves every other
\* record alone; putting (f, e) again would change nothing, and it changed
\* nothing if the log already held e for f.
C12_PutIsIdempotentUpsert ==
    [][\A f \in Hashes, e \in Expiries :
          PutReturns(f, e, FALSE)
              => /\ Len(store'[f]) = 4
                 /\ Get(f)' = [value |-> e, err |-> FALSE]
                 /\ PutTx(f, e)' = store'
                 /\ \A g \in Hashes \ {f} : store'[g] = store[g]
                 /\ (store[f] = PutUint32(e) => store' = store)]_vars

\* Both fingerprints hold a record, one of them the largest expiry, on a
\* log that can take another Put.
C12_Witness ==
    /\ CanWrite
    /\ hist["h1"] = <<"put", MaxUint32>>
    /\ hist["h2"] = <<"put", U32(256)>>
    /\ Get("h1").value = MaxUint32
    /\ Get("h2").value = U32(256)

\* C13: whatever the interleaving of Put, Delete, Get and sweeps, every
\* call takes effect at one point: on an open log Get(f) returns the expiry
\* of the last Put(f, .) that committed, if no Delete of f and no sweep
\* that expired f has committed since, and the absent sentinel otherwise.
C13_GetSeesLastCommitted ==
    (db = "open" /\ bucket)
        => \A f \in Hashes :
              Get(f) = [value |-> IF hist[f][1] = "put" THEN hist[f][2]
                                  ELSE MaxUint32,
                        err |-> FALSE]

\* A sweep at height 257 holds the writer lock and has not committed: a
\* Get still reads the record of expiry 256 that the sweep is deleting,
\* beside a fingerprint that was deleted.
C13_Witness ==
    \E g \in Gens :
        /\ gc[g].pc = "tx"
        /\ rwlock = g
        /\ gc[g].height = 257
        /\ hist["h1"] = <<"put", U32(256)>>
        /\ Get("h1") = [value |-> U32(256), err |-> FALSE]
        /\ hist["h2"] = <<"deleted">>
        /\ Get("h2") = [value |-> MaxUint32, err |-> FALSE]

\* C14 as stated: on an unaltered packet, every hop that has processed
\* recovered its own payload, every hop but the last returned MoreHops and
\* the last returned ExitNode.
C14_BuildThenProcess ==
    (onion.pc = "built" /\ ~onion.tampered)
        => \A i \in 1 .. Len(onion.out) :
              /\ onion.out[i].payload = onion.hops[i]
              /\ onion.out[i].code =
                     IF i = Len(onion.privs) THEN "ExitNode" ELSE "MoreHops"

\* Only the last payload of the route names the exit sentinel as its next
\* address.
ExitOnlyAtLast(hops) ==
    \A i \in 1 .. Len(hops) : (NextAddress(hops[i]) = 0) <=> (i = Len(hops))

\* C14 amended: every hop that has processed recovered its own payload,
\* and when only the last payload names the exit sentinel, every hop but
\* the last returned MoreHops and the last returned ExitNode.
C14_BuildThenProcessExitAtLast ==
    (onion.pc = "built" /\ ~onion.tampered)
        => \A i \in 1 .. Len(onion.out) :
              /\ onion.out[i].payload = onion.hops[i]
              /\ ExitOnlyAtLast(onion.hops)
                    => onion.out[i].code =
                          IF i = Len(onion.privs) THEN "ExitNode" ELSE "MoreHops"

\* A route of three hops with three different payloads has been processed
\* to its end.
C14_Witness ==
    /\ onion.pc = "built"
    /\ ~onion.tampered
    /\ onion.privs = <<2, 3, 2>>
    /\ onion.hops = <<4, 6, 1>>
    /\ Len(onion.out) = 3
    /\ onion.out[1] = [code |-> "MoreHops", payload |-> 4]
    /\ onion.out[2] = [code |-> "MoreHops", payload |-> 6]
    /\ onion.out[3] = [code |-> "ExitNode", payload |-> 1]

\* C15: when one cell of a built packet's routing-info region or its tag
\* has been altered, the first hop's process returns IntegrityFailure and
\* no payload.
C15_TamperIsIntegrityFailure ==
    (onion.tampered /\ onion.out # <<>>)
        => /\ Len(onion.out) = 1
           /\ onion.out[1] = [code |-> "IntegrityFailure", payload |-> NoPayload]

\* The first hop of a three-hop route has rejected an altered packet.
C15_Witness ==
    /\ onion.tampered
    /\ Len(onion.privs) = 3
    /\ onion.out = <<[code |-> "IntegrityFailure", payload |-> NoPayload]>>

\* C16: on a started, open log Get(f) returns math.MaxUint32 exactly when
\* the bucket holds no record for f, whatever expiry was Put.
C16_SentinelMeansAbsent ==
    (db = "open" /\ bucket)
        => \A f \in Hashes :
              (Get(f).value = MaxUint32) <=> (store[f] = NoValue)

\* C17: while a sweep's transaction is open, every step leaves what Get
\* returns for every fingerprint as it was, except the step that commits
\* the sweep, after which every record expired at the sweep's height is
\* absent and every other record is as before; a sweep that fails changes
\* no record.
C17_SweepIsAllOrNothing ==
    [][\A g \in Gens :
          gc[g].pc = "tx"
              => /\ \/ \A f \in Hashes : Get(f)' = Get(f)
                    \/ /\ gc'[g].pc = AfterSweep
                       /\ \A f \in Hashes :
                             Get(f)' = IF f \in Expired(gc[g].height)
                                       THEN [value |-> MaxUint32, err |-> FALSE]
                                       ELSE Get(f)
                 /\ gc'[g].pc = "failed" => store' = store]_vars

\* A sweep's transaction is open at a height that expires the records of
\* both fingerprints, and a Get still reads both.
C17_Witness ==
    \E g \in Gens :
        /\ gc[g].pc = "tx"
        /\ rwlock = g
        /\ Expired(gc[g].height) = Hashes
        /\ \A f \in Hashes : ~Get(f).err /\ Get(f).value # MaxUint32

\* C18: a Put or a Delete that returns an error leaves the bucket as it
\* was: Get of every fingerprint returns after the call what it returned
\* before it.
C18_FailedWriteChangesNothing ==
    [][\A f \in Hashes :
          ((\E e \in Expiries : PutReturns(f, e, TRUE)) \/ DeleteReturns(f, TRUE))
              => /\ store' = store
                 /\ bucket' = bucket
                 /\ \A g \in Hashes : Get(g)' = Get(g)]_vars

\* A started log that holds a record of each fingerprint and on which a
\* write transaction can begin, and so can fail.
C18_Witness ==
    /\ CanWrite
    /\ bucket
    /\ hist["h1"] = <<"put", U32(255)>>
    /\ hist["h2"] = <<"put", U32(256)>>
    /\ Get("h1") = [value |-> U32(255), err |-> FALSE]
    /\ Get("h2") = [value |-> U32(256), err |-> FALSE]

\* C19: Start and Stop can be cycled on one instance without a fault: every
\* Start makes a quit channel that has never been closed, and every Stop
\* closes the channel of the Start before it, which is neither nil nor
\* already closed (closing either would panic), whether or not the log has
\* a notifier.
C19_StartStopCycles ==
    [][/\ Start => (quit' # quit /\ quit' \in Gens /\ quit' \notin closedQuit)
       /\ StopBegin => (quit \in Gens /\ quit \notin closedQuit
                          /\ closedQuit' = closedQuit \cup {quit})]_vars

\* Two complete Start/Stop cycles of a log with a notifier: both quit
\* channels are closed and the database is closed again.
C19_Witness ==
    /\ notifier
    /\ quit = 2
    /\ closedQuit = {1, 2}
    /\ db = "closed"
    /\ stopPc = "idle"

\* C20: at most one garbage-collector goroutine is active at any time. It
\* does not hold of the code: Stop does not wait for the goroutine it told
\* to quit, so the goroutine of the earlier Start is still running when
\* the later Start launches the next one.
C20_AtMostOneGarbageCollector ==
    Cardinality({g \in Gens : gc[g].pc # "none" /\ ~Exited(g)}) <= 1

\* The ways the goroutine returns an error: the sweep's transaction failed,
\* its Batch was refused by a closed database, or the epoch stream closed.
ErrorExits == {"failed", "refused", "shutdown"}

\* C21: once the garbage collector of the latest Start has terminated with
\* an error, no height event triggers a sweep until the next Start: no
\* goroutine receives a block epoch. It does not hold of the code: the
\* goroutine of an earlier Start, which Stop did not wait for, is still
\* receiving epochs.
C21_NoSweepAfterGcError ==
    [][\A g \in Gens :
          (quit \in Gens /\ gc[quit].pc \in ErrorExits) => ~GcRecv(g)]_vars

\* A uint32 read as an int32 (two's complement).
Int32OfUint32(c) ==
    IF c[1] < 32768 THEN c[1] * 65536 + c[2] ELSE (c[1] - 65536) * 65536 + c[2]

\* c < H modulo 2^32, for a uint32 c and an int32 H: below 2^31 the two
\* compare as int32 when H is not negative and c is the smaller when H is
\* negative; from 2^31 on c is the larger unless H is negative too.
BelowHeight(c, H) ==
    IF H >= 0 THEN c[1] < 32768 /\ Int32OfUint32(c) < H
    ELSE c[1] < 32768 \/ Int32OfUint32(c) < H

\* C22: a committed sweep at height H deletes exactly the records whose
\* expiry is below H taken modulo 2^32: none at height 0, and at a negative
\* H every record whose expiry is below H + 2^32.
C22_SweepComparesModulo ==
    [][\A g \in Gens :
          (gc[g].pc = "tx" /\ gc'[g].pc = AfterSweep)
              => /\ \A f \in Hashes :
                       store'[f] = IF /\ store[f] # NoValue
                                      /\ BelowHeight(Uint32(store[f]), gc[g].height)
                                   THEN NoValue ELSE store[f]
                 /\ gc[g].height = 0 => store' = store]_vars

\* A sweep at height -1 has removed the record that expired at 2^32 - 2 and
\* left the one that expires at 2^32 - 1.
C22_Witness ==
    /\ hist["h1"] = <<"swept", -1>>
    /\ store["h1"] = NoValue
    /\ store["h2"] = PutUint32(MaxUint32)

\* C23: Put(f, e) and Delete(f), whatever they return, change at most the
\* record of f: Get of every other fingerprint returns the same result
\* after the call as before it. It fails where the call creates the
\* missing bucket: Get of the others returned an error and now returns the
\* sentinel.
C23_WritesTouchOneRecord ==
    [][\A f \in Hashes :
          (\/ \E e \in Expiries, err \in BOOLEAN : PutReturns(f, e, err)
           \/ \E err \in BOOLEAN : DeleteReturns(f, err))
              => \A g \in Hashes \ {f} : Get(g)' = Get(g)]_vars

\* C23, amended: while the shared-hash bucket exists, Put(f, e) and
\* Delete(f), whatever they return, leave the result of Get unchanged for
\* every fingerprint other than f.
C23_WritesTouchOneRecordOfBucket ==
    [][\A f \in Hashes :
          (/\ bucket
           /\ \/ \E e \in Expiries, err \in BOOLEAN : PutReturns(f, e, err)
              \/ \E err \in BOOLEAN : DeleteReturns(f, err))
              => \A g \in Hashes \ {f} : Get(g)' = Get(g)]_vars

\* The record of h2 has been deleted and then that of h1 rewritten on an
\* open log, and Get of each still returns what the call on it left.
C23_Witness ==
    /\ db = "open"
    /\ bucket
    /\ hist["h2"] = <<"deleted">>
    /\ hist["h1"] = <<"put", U32(256)>>
    /\ Get("h1") = [value |-> U32(256), err |-> FALSE]
    /\ Get("h2") = [value |-> MaxUint32, err |-> FALSE]

\* C24: a Start that returns nil leaves the shared-hash bucket in place,
\* the bucket once created is never removed, and so on an open log that a
\* Start has returned nil on, Get of a fingerprint that was never stored
\* returns math.MaxUint32 with a nil error.
C24_GetOfNeverStored ==
    /\ [][/\ StartReturns(FALSE) =>
                (bucket' /\ \A f \in Hashes :
                     hist'[f] = <<"none">>
                         => Get(f)' = [value |-> MaxUint32, err |-> FALSE])
          /\ bucket => bucket']_vars
    /\ [](\A f \in Hashes :
             (db = "open" /\ bucket /\ hist[f] = <<"none">>)
                 => Get(f) = [value |-> MaxUint32, err |-> FALSE])

\* The first Start, on empty storage, has returned nil: the log is open
\* with its bucket and no fingerprint has been stored.
C24_Witness ==
    /\ db = "open"
    /\ quit = 1
    /\ bucket
    /\ \A f \in Hashes : hist[f] = <<"none">> /\ store[f] = NoValue

\* C25: in the ShortChannelID-keyed log, Get(c, h) returns the value stored
\* under h: for every hash h that a Put with c has stored and that is
\* still there, Get(c, h) is that value with a nil error. It does not hold
\* of the code: Get reads under the hash last put with c, whatever h is.
C25_ChanGetReadsItsHash ==
    \A c \in ShortChanIDs, h \in Hashes :
        (chanLog.db = "open" /\ h \in chanLog.putBy[c]
                             /\ chanLog.sharedHashes[h] # NoValue)
            => ChanGet(c, h) = [value |-> Uint32(chanLog.sharedHashes[h]),
                                err |-> FALSE]

\* C26: in the log of decayedlog.go, once Stop has been called after Start
\* it has completed without a fault and the database is closed. It does
\* not hold of the code: Stop closes a quit channel that was never made.
C26_ChanStopIsSafe ==
    chanLog.stop # "none" => (chanLog.stop = "done" /\ chanLog.db = "closed")

=============================================================================
